---- MODULE Spec2Model ----
(***************************************************************************)
(* kaku: the domain coordination core.                                     *)
(*                                                                         *)
(* The in-memory repositories (ProjectBook, NoteBook, ThoughtBook), the    *)
(* ThoughtService that orchestrates them and the unbounded event channel   *)
(* it publishes to.                                                        *)
(*                                                                         *)
(* Every caller (an HTTP request handler, a test holding a repository      *)
(* handle) is a call: call c runs one operation from its first step to its *)
(* return and keeps its result.  Calls start in the order of their number, *)
(* any number of them may be in flight at once, and a step of a call is    *)
(* one critical section of a repository (the code between acquiring and    *)
(* releasing its RwLock guards) or one send on the channel.  An await on a *)
(* lock is the only place where another call may run in between.           *)
(*                                                                         *)
(* Uuid::new_v4() is modelled by the number of the call that draws it: a   *)
(* call draws at most one id of each kind, so ids are fresh and unique.    *)
(***************************************************************************)
EXTENDS Naturals, Integers, Sequences, FiniteSets, Bags, TLC

VARIABLES
    projects,   \* InMemoryProjectBook.projects : project_id -> Project
    slugs,      \* InMemoryProjectBook.slugs    : slug -> project_id
    notes,      \* InMemoryNoteBook.notes       : note_id -> Note
    thoughts,   \* InMemoryThoughtBook.thoughts : thought_id -> Thought
    events,     \* the messages sent on the channel, in sending order
    rx_open,    \* the receiving half of the channel is alive
    received,   \* the messages the holder of the receiver took, in order
    container,  \* the Container: its cells and what it has handed out
    locks,      \* the RwLocks of the repositories: holders and waiters
    pc,         \* per call: where the call stands
    cmd,        \* per call: the operation and its arguments
    loc,        \* per call: the project id held in a local variable
    res,        \* per call: the value returned
    committed   \* history: the bag of mutations written to the repositories

vars ==
    <<projects, slugs, notes, thoughts, events, rx_open, received, container,
      locks, pc, cmd, loc, res, committed>>

repos == <<projects, slugs, notes, thoughts>>

----------------------------------------------------------------------------
(* Bounds *)

\* Number of calls made in one behaviour.
MaxCalls == 3

Calls == 1 .. MaxCalls

\* Option::None for an Option<Uuid>.
None == 0

\* The ids of the entities stored before the first call, and an id that no
\* entity ever has (a Uuid the caller made up).
SeedId == MaxCalls + 1
UnknownId == MaxCalls + 2

Ids == Calls \cup {SeedId, UnknownId}

----------------------------------------------------------------------------
(* Project::generate_slug and Project::create (models/project.rs) *)

\* Characters are one-character strings; a name or a slug is a sequence of them.
LowerLetters == {"a", "b", "e"}
UpperLetters == {"A", "B"}
Digits == {"1"}
Whitespace == {" "}

\* char::is_ascii_alphanumeric
IsAsciiAlphanumeric(c) == c \in LowerLetters \cup UpperLetters \cup Digits

\* unidecode of one character: ASCII is kept, a non-ASCII letter becomes its
\* closest ASCII form.
UnidecodeChar(c) == IF c = "é" THEN <<"e">> ELSE <<c>>

RECURSIVE unidecode(_)
unidecode(s) ==
    IF s = <<>> THEN <<>> ELSE UnidecodeChar(Head(s)) \o unidecode(Tail(s))

RECURSIVE TrimStart(_)
TrimStart(s) ==
    IF s # <<>> /\ Head(s) \in Whitespace THEN TrimStart(Tail(s)) ELSE s

RECURSIVE TrimEnd(_)
TrimEnd(s) ==
    IF s # <<>> /\ s[Len(s)] \in Whitespace
    THEN TrimEnd(SubSeq(s, 1, Len(s) - 1))
    ELSE s

\* str::trim
trim(s) == TrimEnd(TrimStart(s))

\* char::to_lowercase on the characters of the model
LowerChar(c) ==
    CASE c = "A" -> "a"
      [] c = "B" -> "b"
      [] OTHER -> c

to_lowercase(s) == [i \in 1 .. Len(s) |-> LowerChar(s[i])]

\* .map(|c| if c.is_ascii_alphanumeric() { c } else { '-' })
DashNonAlnum(s) ==
    [i \in 1 .. Len(s) |-> IF IsAsciiAlphanumeric(s[i]) THEN s[i] ELSE "-"]

\* str::split('-'): the pieces between the dashes, empty pieces included.
RECURSIVE SplitFrom(_, _, _)
SplitFrom(s, i, piece) ==
    IF i > Len(s) THEN <<piece>>
    ELSE IF s[i] = "-" THEN <<piece>> \o SplitFrom(s, i + 1, <<>>)
    ELSE SplitFrom(s, i + 1, Append(piece, s[i]))

split(s) == SplitFrom(s, 1, <<>>)

\* Mutant: the empty pieces are kept.
NonEmptyPieces_KeepsEmpty(ps) == ps

\* .filter(|s| !s.is_empty())
NonEmptyPieces(ps) == SelectSeq(ps, LAMBDA p : p # <<>>)

\* Mutant: the last piece is left out of the join.
RECURSIVE join_SkipsLastPiece(_)
join_SkipsLastPiece(ps) ==
    IF Len(ps) <= 1 THEN <<>>
    ELSE IF Len(ps) = 2 THEN ps[1]
    ELSE ps[1] \o <<"-">> \o join_SkipsLastPiece(Tail(ps))

\* [&str]::join("-")
RECURSIVE join(_)
join(ps) ==
    IF ps = <<>> THEN <<>>
    ELSE IF Len(ps) = 1 THEN ps[1]
    ELSE ps[1] \o <<"-">> \o join(Tail(ps))

generate_slug(name) ==
    join(NonEmptyPieces(split(DashNonAlnum(to_lowercase(trim(unidecode(name)))))))

\* The names callers give to create_project.
Names == { <<"A", "b">>, <<"a", "b", "!">>, <<" ">> }

\* Project names at the edge of Project::create's validation: empty, made of
\* whitespace, made of punctuation (not empty once trimmed, and with an empty
\* slug), and an ordinary one.
EdgeNames == {<<>>, <<" ">>, <<" ", " ">>, <<"!">>, <<"A", "b">>}

\* generate_slug on the project names of the commands and on their slugs,
\* computed once.
ProjectNames ==
    Names \cup EdgeNames \cup {generate_slug(n) : n \in Names \cup EdgeNames}
SlugOf == [n \in ProjectNames |-> generate_slug(n)]

\* Project::create refuses a name that is empty once trimmed.
NameIsValid(name) == trim(name) # <<>>

\* Project::create: the Project built from a command, with the id drawn for it.
NewProject(id, command) ==
    [ project_id   |-> id,
      universe_id  |-> command.universe_id,
      created_at   |-> 1,
      project_name |-> trim(command.project_name),
      slug         |-> SlugOf[command.project_name],
      locked       |-> FALSE ]

----------------------------------------------------------------------------
(* Values *)

\* Result::Ok(entity) and Result::Err(error): id is the id of the entity
\* returned, or the Uuid the error carries; list is the ids of the entities
\* of a Vec returned.
Ok(id) == [ok |-> TRUE, err |-> "none", id |-> id, list |-> {}]
Err(e, id) == [ok |-> FALSE, err |-> e, id |-> id, list |-> {}]
Pending == [ok |-> FALSE, err |-> "pending", id |-> None, list |-> {}]

\* ModelEvent.model (models/event.rs): the aggregate kind, the entity's id, the
\* owning project or universe, and the change kind.  The same shape describes
\* a mutation in the history variable.
Mutation(kind, id, owner, change) ==
    [kind |-> kind, id |-> id, owner |-> owner, change |-> change]

\* The slugs of request paths.
PathSlugs == { <<"a", "b">>, <<"e">> }
Universes == {1}
Contents == {"text", "more"}
ThoughtContents == {"text"}

\* The entities stored before the first call, when there are some.
SeedProject ==
    [ project_id |-> SeedId, universe_id |-> 1, created_at |-> 1,
      project_name |-> <<"a", "b">>, slug |-> <<"a", "b">>, locked |-> FALSE ]
SeedNote == [note_id |-> SeedId, project_id |-> SeedId, content |-> "text"]
SeedThought ==
    [ thought_id |-> SeedId, parent_id |-> None, project_id |-> SeedId,
      content |-> "text" ]

\* A finite map with one more entry, and with one entry less.
Put(m, k, v) == [x \in DOMAIN m \cup {k} |-> IF x = k THEN v ELSE m[x]]
Remove(m, k) == [x \in DOMAIN m \ {k} |-> m[x]]
EmptyMap == [x \in {} |-> None]

----------------------------------------------------------------------------
(* The state after construction *)

\* Container::default() builds empty repositories and an open channel.  A
\* behaviour starts there, or from repositories that earlier calls filled with
\* one project, one note and one thought and whose events were all received.
\* The RwLocks: projects and slugs of InMemoryProjectBook, notes of
\* InMemoryNoteBook, thoughts of InMemoryThoughtBook.  A tokio RwLock serves
\* its waiters in the order they asked; holders and queue hold
\* [call, mode, stage] records, stage being the critical section the guard
\* is taken for.
LockNames == {"projects", "slugs", "notes", "thoughts"}
Unlocked ==
    [ holders |-> [l \in LockNames |-> {}],
      queue |-> [l \in LockNames |-> <<>>] ]

\* Container::default(): every cell is empty and nothing was handed out.
\* allocated counts the instances built so far (an instance is named by its
\* number), closed holds the channels whose receiver was dropped.
MaxContainerCalls == 4
NewContainer ==
    [ alive |-> TRUE,
      note_book |-> None,
      project_book |-> None,
      thought_service |->
          [set |-> FALSE, note_book |-> None, project_book |-> None,
           sender |-> None],
      event_publisher |-> None,
      allocated |-> 0,
      handles |-> {},
      closed |-> {},
      calls |-> 0 ]

Init ==
    /\ \E seeded \in BOOLEAN :
        /\ projects = IF seeded THEN Put(EmptyMap, SeedId, SeedProject) ELSE EmptyMap
        /\ slugs = IF seeded THEN Put(EmptyMap, SeedProject.slug, SeedId) ELSE EmptyMap
        /\ notes = IF seeded THEN Put(EmptyMap, SeedId, SeedNote) ELSE EmptyMap
        /\ thoughts = IF seeded THEN Put(EmptyMap, SeedId, SeedThought) ELSE EmptyMap
    /\ events = <<>>
    /\ rx_open = TRUE
    /\ received = <<>>
    /\ container = NewContainer
    /\ locks = Unlocked
    /\ pc = [c \in Calls |-> "idle"]
    /\ cmd = [c \in Calls |-> [op |-> "none"]]
    /\ loc = [c \in Calls |-> None]
    /\ res = [c \in Calls |-> Pending]
    /\ committed = EmptyBag

----------------------------------------------------------------------------
(* Control *)

Goto(c, label) == pc' = [pc EXCEPT ![c] = label] /\ UNCHANGED res

Return(c, r) == pc' = [pc EXCEPT ![c] = "done"] /\ res' = [res EXCEPT ![c] = r]

\* The first await of each operation.
FirstPc(op) ==
    CASE op = "create_project" -> "get_by_slug"
      [] op = "create_note" -> "get_by_slug"
      [] op = "create_thought" -> "get_by_slug"
      [] op = "scratch_note" -> "nb_delete"
      [] op = "pb_create" -> "pb_create"
      [] op = "pb_update" -> "pb_update"
      [] op = "pb_delete" -> "pb_delete"
      [] op = "pb_get" -> "get"
      [] op = "pb_get_by_slug" -> "get_by_slug"
      [] op = "pb_list" -> "pb_list"
      [] op = "nb_add" -> "nb_add"
      [] op = "nb_get" -> "nb_get"
      [] op = "nb_sync" -> "nb_sync"
      [] op = "nb_delete" -> "nb_delete"
      [] op = "tb_add" -> "tb_add"
      [] op = "tb_get" -> "tb_get"
      [] op = "tb_sync" -> "tb_sync"
      [] op = "generate_slug" -> "generate_slug"

\* The commands of ThoughtService; every other operation is a call on a
\* repository itself.
ServiceOps == {"create_project", "create_note", "scratch_note", "create_thought"}

\* The end of a repository write: the service goes on to send_message, a
\* direct caller gets the result.
Finish(c, r) ==
    IF cmd[c].op \in ServiceOps THEN Goto(c, "publish") ELSE Return(c, r)

\* The project id add is given: the one the service resolved, or the one the
\* direct caller passes.
ProjectArg(c) ==
    IF cmd[c].op \in ServiceOps THEN loc[c] ELSE cmd[c].project_id

\* The ids a caller can hold.  A Uuid drawn by add reaches callers only in the
\* entity a command returns and in the event it publishes, so the ids known are
\* those of the entities stored before the first call, those returned by a
\* command, those of the notes scratched before, and a Uuid of the caller's
\* own making.
ScratchedIds ==
    {m.id : m \in {x \in BagToSet(committed) :
                       x.kind = "Note" /\ x.change = "Scratched"}}
ReturnedIds == {c \in Calls : pc[c] = "done" /\ res[c].ok} \cup {SeedId}
KnownNoteIds ==
    (DOMAIN notes \cap ReturnedIds) \cup ScratchedIds \cup {UnknownId}
KnownThoughtIds == (DOMAIN thoughts \cap ReturnedIds) \cup {UnknownId}

\* The commands of ThoughtService (service/thought.rs).
ServiceCommands ==
    {[op |-> "create_project", project_name |-> n, universe_id |-> u] :
        n \in Names, u \in Universes}
    \cup {[op |-> "create_note", project_slug |-> s, content |-> t] :
        s \in PathSlugs, t \in Contents}
    \cup {[op |-> "scratch_note", note_id |-> i] : i \in KnownNoteIds}
    \cup {[op |-> "create_thought", project_slug |-> s, parent_id |-> i,
           content |-> t] :
        s \in PathSlugs, i \in KnownThoughtIds \cup {None},
        t \in ThoughtContents}

\* The create_note commands among them.
CreateNoteCommands == {k \in ServiceCommands : k.op = "create_note"}

\* A call starts once the calls numbered before it have started.
Begin(c, k) ==
    /\ pc[c] = "idle"
    /\ IF c = 1 THEN TRUE ELSE pc[c - 1] # "idle"
    /\ cmd' = [cmd EXCEPT ![c] = k]
    /\ pc' = [pc EXCEPT ![c] = FirstPc(k.op)]
    /\ UNCHANGED <<repos, events, rx_open, received, container, locks, loc, res, committed>>

StartService(c) == \E k \in ServiceCommands : Begin(c, k)

\* The calls a holder of the Arc<dyn ProjectBook> makes on the repository
\* itself.  update is given a stored project with another slug and name, a
\* stored project rebuilt by the caller with another universe_id and
\* created_at, or a project that was never stored.
BookCommands ==
    {[op |-> "pb_create", project_name |-> n, universe_id |-> u] :
        n \in Names, u \in Universes}
    \cup {[op |-> "pb_update",
           project |-> [projects[i] EXCEPT !.slug = s, !.project_name = s]] :
        i \in DOMAIN projects, s \in PathSlugs}
    \cup {[op |-> "pb_update",
           project |-> [projects[i] EXCEPT !.universe_id = 2,
                                           !.created_at = 2]] :
        i \in DOMAIN projects}
    \cup {[op |-> "pb_update",
           project |-> [SeedProject EXCEPT !.project_id = UnknownId,
                                           !.slug = s]] :
        s \in PathSlugs}
    \cup {[op |-> "pb_delete", project_id |-> i] :
        i \in DOMAIN projects \cup {UnknownId}}

StartBook(c) == \E k \in BookCommands : Begin(c, k)

StartCreateNote(c) == \E k \in CreateNoteCommands : Begin(c, k)

\* The create_thought commands among them.
CreateThoughtCommands == {k \in ServiceCommands : k.op = "create_thought"}

StartCreateThought(c) == \E k \in CreateThoughtCommands : Begin(c, k)

\* The POST /project/{slug}/thought requests: the slug of the path and the
\* JSON body, which may carry a parent_id beside the fields of
\* CreateThoughtRequest.
ThoughtRequests ==
    {[project_slug |-> s, body |-> [content |-> t, parent_id |-> i]] :
        s \in PathSlugs, t \in ThoughtContents,
        i \in KnownThoughtIds \cup {None}}

\* The create_thought handler up to its call of the service: the body is
\* deserialized into CreateThoughtRequest, which has no parent_id field, and
\* the command is built with parent_id: None.
PostThought(c) ==
    \E request \in ThoughtRequests :
        Begin(c, [op |-> "create_thought",
                  project_slug |-> request.project_slug,
                  content |-> request.body.content,
                  parent_id |-> None,
                  request |-> request])

\* project_book.create and ThoughtService::create_project given such a name.
EdgeCommands ==
    {[op |-> o, project_name |-> n, universe_id |-> u] :
        o \in {"pb_create", "create_project"}, n \in EdgeNames,
        u \in Universes}

StartCreateEdge(c) == \E k \in EdgeCommands : Begin(c, k)

\* The reads a holder of the Arc<dyn ProjectBook> makes.
QueryUniverses == {1, 2}
ReadCommands ==
    {[op |-> "pb_get", project_id |-> i] : i \in DOMAIN projects \cup {UnknownId}}
    \cup {[op |-> "pb_get_by_slug", slug |-> s] : s \in PathSlugs}
    \cup {[op |-> "pb_list", universe_id |-> u] : u \in QueryUniverses}

StartRead(c) == \E k \in ReadCommands : Begin(c, k)

\* The calls a holder of the Arc<dyn NoteBook> makes.  sync is given a stored
\* note with another content, the note a delete handed back, or a note that
\* was never stored.
NoteBookCommands ==
    {[op |-> "nb_add", project_id |-> SeedId, content |-> t] : t \in Contents}
    \cup {[op |-> "nb_get", note_id |-> i] : i \in KnownNoteIds}
    \cup {[op |-> "nb_sync", note |-> [notes[i] EXCEPT !.content = t]] :
            i \in DOMAIN notes \cap ReturnedIds, t \in Contents}
    \cup {[op |-> "nb_sync", note |-> [SeedNote EXCEPT !.note_id = i]] :
            i \in ScratchedIds \cup {UnknownId}}
    \cup {[op |-> "nb_delete", note_id |-> i] : i \in KnownNoteIds}

StartNoteBook(c) == \E k \in NoteBookCommands : Begin(c, k)

\* The calls a holder of the Arc<dyn ThoughtBook> makes.  sync is given a
\* stored thought with another parent_id, or a thought that was never stored.
ThoughtBookCommands ==
    {[op |-> "tb_add", parent_id |-> q, project_id |-> SeedId, content |-> t] :
        q \in KnownThoughtIds \cup {None}, t \in ThoughtContents}
    \cup {[op |-> "tb_get", thought_id |-> i] : i \in KnownThoughtIds}
    \cup {[op |-> "tb_sync", thought |-> [thoughts[i] EXCEPT !.parent_id = q]] :
            i \in DOMAIN thoughts \cap ReturnedIds,
            q \in KnownThoughtIds \cup {None}}
    \cup {[op |-> "tb_sync",
           thought |-> [SeedThought EXCEPT !.thought_id = UnknownId,
                                           !.parent_id = q]] :
            q \in KnownThoughtIds \cup {None}}

StartThoughtBook(c) == \E k \in ThoughtBookCommands : Begin(c, k)

----------------------------------------------------------------------------
(* InMemoryProjectBook (adapter/project_book.rs) *)

\* The slug a call looks up: create_project slugifies the slug of the name
\* once more, the other commands pass the slug of the request as it is.
LookupSlug(k) ==
    IF k.op = "create_project"
    THEN SlugOf[SlugOf[k.project_name]]
    ELSE IF k.op = "pb_get_by_slug"
    THEN k.slug
    ELSE k.project_slug

\* Mutant: create_note publishes right after the resolution, without the
\* add that should precede it.
AfterResolve_PublishFirst(k, v) ==
    CASE k.op = "create_project" ->
            IF v # None
            THEN [pc |-> "done", res |-> Err("ProjectAlreadyExists", None)]
            ELSE [pc |-> "pb_create", res |-> Pending]
      [] k.op = "create_note" ->
            IF v = None
            THEN [pc |-> "done", res |-> Err("ProjectNotFound", None)]
            ELSE [pc |-> "publish", res |-> Pending]
      [] k.op = "create_thought" ->
            IF v = None
            THEN [pc |-> "done", res |-> Err("ProjectNotFound", None)]
            ELSE IF k.parent_id # None
            THEN [pc |-> "tb_get", res |-> Pending]
            ELSE [pc |-> "tb_insert", res |-> Pending]

\* Mutant: create_note does not stop when its slug resolves to no project.
AfterResolve_NoteWithoutProject(k, v) ==
    CASE k.op = "create_project" ->
            IF v # None
            THEN [pc |-> "done", res |-> Err("ProjectAlreadyExists", None)]
            ELSE [pc |-> "pb_create", res |-> Pending]
      [] k.op = "create_note" -> [pc |-> "nb_add", res |-> Pending]
      [] k.op = "create_thought" ->
            IF v = None
            THEN [pc |-> "done", res |-> Err("ProjectNotFound", None)]
            ELSE IF k.parent_id # None
            THEN [pc |-> "tb_get", res |-> Pending]
            ELSE [pc |-> "tb_insert", res |-> Pending]

\* Mutant: create_project delegates to ProjectBook.create whatever its
\* pre-check found.
AfterResolve_NoFastFail(k, v) ==
    CASE k.op = "create_project" -> [pc |-> "pb_create", res |-> Pending]
      [] k.op = "create_note" ->
            IF v = None
            THEN [pc |-> "done", res |-> Err("ProjectNotFound", None)]
            ELSE [pc |-> "nb_add", res |-> Pending]
      [] k.op = "create_thought" ->
            IF v = None
            THEN [pc |-> "done", res |-> Err("ProjectNotFound", None)]
            ELSE IF k.parent_id # None
            THEN [pc |-> "tb_get", res |-> Pending]
            ELSE [pc |-> "tb_insert", res |-> Pending]

\* Mutant: create_thought verifies the parent before it looks at the project.
AfterResolve_ParentBeforeProject(k, v) ==
    CASE k.op = "create_project" ->
            IF v # None
            THEN [pc |-> "done", res |-> Err("ProjectAlreadyExists", None)]
            ELSE [pc |-> "pb_create", res |-> Pending]
      [] k.op = "create_note" ->
            IF v = None
            THEN [pc |-> "done", res |-> Err("ProjectNotFound", None)]
            ELSE [pc |-> "nb_add", res |-> Pending]
      [] k.op = "create_thought" ->
            IF k.parent_id # None
            THEN [pc |-> "tb_get", res |-> Pending]
            ELSE IF v = None
            THEN [pc |-> "done", res |-> Err("ProjectNotFound", None)]
            ELSE [pc |-> "tb_insert", res |-> Pending]

\* What a command does with the project id its get_by_slug resolved to; a
\* direct caller of get or get_by_slug is handed the Option.
AfterResolve(k, v) ==
    CASE k.op = "create_project" ->
            IF v # None
            THEN [pc |-> "done", res |-> Err("ProjectAlreadyExists", None)]
            ELSE [pc |-> "pb_create", res |-> Pending]
      [] k.op = "create_note" ->
            IF v = None
            THEN [pc |-> "done", res |-> Err("ProjectNotFound", None)]
            ELSE [pc |-> "nb_add", res |-> Pending]
      [] k.op = "create_thought" ->
            IF v = None
            THEN [pc |-> "done", res |-> Err("ProjectNotFound", None)]
            ELSE IF k.parent_id # None
            THEN [pc |-> "tb_get", res |-> Pending]
            ELSE [pc |-> "tb_insert", res |-> Pending]
      [] k.op \in {"pb_get", "pb_get_by_slug"} ->
            [pc |-> "done", res |-> Ok(v)]

Resolved(c, v) ==
    /\ loc' = [loc EXCEPT ![c] = v]
    /\ pc' = [pc EXCEPT ![c] = AfterResolve(cmd[c], v).pc]
    /\ res' = [res EXCEPT ![c] = AfterResolve(cmd[c], v).res]

\* get_by_slug, first critical section: the read of the slugs map.
GetBySlugRead(c) ==
    /\ pc[c] = "get_by_slug"
    /\ IF LookupSlug(cmd[c]) \in DOMAIN slugs
       THEN /\ loc' = [loc EXCEPT ![c] = slugs[LookupSlug(cmd[c])]]
            /\ Goto(c, "get")
       ELSE Resolved(c, None)
    /\ UNCHANGED <<repos, events, rx_open, received, container, locks, cmd, committed>>

\* Mutant: get_by_slug trusts the slugs map and hands the id back without
\* looking for the project.
GetRead_TrustsSlugMap(c) ==
    /\ pc[c] = "get"
    /\ LET project_id ==
               IF cmd[c].op = "pb_get" THEN cmd[c].project_id ELSE loc[c]
       IN  Resolved(c, project_id)
    /\ UNCHANGED <<repos, events, rx_open, received, container, locks, cmd, committed>>

\* get_by_slug, second critical section: get(project_id) reads the projects map.
GetRead(c) ==
    /\ pc[c] = "get"
    /\ LET project_id ==
               IF cmd[c].op = "pb_get" THEN cmd[c].project_id ELSE loc[c]
       IN  Resolved(c, IF project_id \in DOMAIN projects
                       THEN project_id
                       ELSE None)
    /\ UNCHANGED <<repos, events, rx_open, received, container, locks, cmd, committed>>

\* create, up to the release of the read guard on slugs: Project::create,
\* then the duplicate-slug check.
PbCreateCheck(c) ==
    /\ pc[c] = "pb_create"
    /\ IF ~NameIsValid(cmd[c].project_name)
       THEN Return(c, Err("ValidationError", None))
       ELSE IF NewProject(c, cmd[c]).slug \in DOMAIN slugs
       THEN Return(c, Err("DuplicateSlug", None))
       ELSE Goto(c, "pb_insert")
    /\ UNCHANGED <<repos, events, rx_open, received, container, locks, cmd, loc, committed>>

\* create, under the write guards of projects and slugs: the two inserts.
PbCreateInsert(c) ==
    /\ pc[c] = "pb_insert"
    /\ projects' = Put(projects, c, NewProject(c, cmd[c]))
    /\ slugs' = Put(slugs, NewProject(c, cmd[c]).slug, c)
    /\ committed' = committed (+)
            SetToBag({Mutation("Project", c, cmd[c].universe_id, "Created")})
    /\ IF cmd[c].op = "create_project"
       THEN Goto(c, "publish")
       ELSE Return(c, Ok(c))
    /\ UNCHANGED <<notes, thoughts, events, rx_open, received, container, locks, cmd, loc>>

\* update, under the write guards of projects and slugs.
PbUpdate(c) ==
    /\ pc[c] = "pb_update"
    /\ LET p == cmd[c].project
           cleared ==
               IF p.project_id \in DOMAIN projects
               THEN Remove(slugs, projects[p.project_id].slug)
               ELSE slugs
       IN  IF p.slug \in DOMAIN cleared /\ cleared[p.slug] # p.project_id
           THEN /\ slugs' = cleared
                /\ projects' = projects
                /\ Return(c, Err("DuplicateSlug", None))
           ELSE /\ slugs' = Put(cleared, p.slug, p.project_id)
                /\ projects' = Put(projects, p.project_id, p)
                /\ Return(c, Ok(p.project_id))
    /\ UNCHANGED <<notes, thoughts, events, rx_open, received, container, locks, cmd, loc, committed>>

\* delete, under the write guards of projects and slugs.
PbDelete(c) ==
    /\ pc[c] = "pb_delete"
    /\ IF cmd[c].project_id \in DOMAIN projects
       THEN /\ projects' = Remove(projects, cmd[c].project_id)
            /\ slugs' = Remove(slugs, projects[cmd[c].project_id].slug)
            /\ Return(c, Ok(None))
       ELSE /\ UNCHANGED <<projects, slugs>>
            /\ Return(c, Err("ProjectNotFound", cmd[c].project_id))
    /\ UNCHANGED <<notes, thoughts, events, rx_open, received, container, locks, cmd, loc, committed>>

\* list_by_universe, under the read guard of projects.
PbList(c) ==
    /\ pc[c] = "pb_list"
    /\ Return(c, [Ok(None) EXCEPT
                        !.list = {i \in DOMAIN projects :
                                    projects[i].universe_id = cmd[c].universe_id}])
    /\ UNCHANGED <<repos, events, rx_open, received, container, locks, cmd, loc, committed>>

----------------------------------------------------------------------------
(* InMemoryNoteBook (adapter/note_book.rs) *)

\* Mutant: add draws the project id as it draws the note id, instead of taking
\* the one the service resolved.
NbAdd_FreshProject(c) ==
    /\ pc[c] = "nb_add"
    /\ notes' = Put(notes, c,
            [note_id |-> c, project_id |-> c, content |-> cmd[c].content])
    /\ committed' = committed (+)
            SetToBag({Mutation("Note", c, loc[c], "Created")})
    /\ Goto(c, "publish")
    /\ UNCHANGED <<projects, slugs, thoughts, events, rx_open, received, container, locks, cmd, loc>>

\* add, under the write guard: the note is built with a fresh id and the
\* project id the service resolved, and inserted.
NbAdd(c) ==
    /\ pc[c] = "nb_add"
    /\ notes' = Put(notes, c,
            [ note_id |-> c, project_id |-> ProjectArg(c),
              content |-> cmd[c].content ])
    /\ committed' = committed (+)
            SetToBag({Mutation("Note", c, ProjectArg(c), "Created")})
    /\ Finish(c, Ok(c))
    /\ UNCHANGED <<projects, slugs, thoughts, events, rx_open, received, container, locks, cmd, loc>>

\* Mutant: delete looks the note up and leaves it in the map.
NbDelete_KeepsNote(c) ==
    /\ pc[c] = "nb_delete"
    /\ IF cmd[c].note_id \in DOMAIN notes
       THEN /\ notes' = notes
            /\ loc' = [loc EXCEPT ![c] = notes[cmd[c].note_id].project_id]
            /\ committed' = committed (+)
                    SetToBag({Mutation("Note", cmd[c].note_id,
                                       notes[cmd[c].note_id].project_id,
                                       "Scratched")})
            /\ Goto(c, "publish")
       ELSE /\ UNCHANGED <<notes, loc, committed>>
            /\ Return(c, Err("NoteNotFound", cmd[c].note_id))
    /\ UNCHANGED <<projects, slugs, thoughts, events, rx_open, received, container, locks, cmd>>

\* delete, under the write guard: HashMap::remove.  The service turns "no
\* note removed" into NoteNotFound(note_id) and keeps the removed note, whose
\* note_id and project_id go into the event.
NbDelete(c) ==
    /\ pc[c] = "nb_delete"
    /\ IF cmd[c].note_id \in DOMAIN notes
       THEN /\ notes' = Remove(notes, cmd[c].note_id)
            /\ loc' = [loc EXCEPT ![c] = notes[cmd[c].note_id].project_id]
            /\ committed' = committed (+)
                    SetToBag({Mutation("Note", cmd[c].note_id,
                                       notes[cmd[c].note_id].project_id,
                                       "Scratched")})
            /\ Finish(c, Ok(cmd[c].note_id))
       ELSE /\ UNCHANGED <<notes, loc, committed>>
            /\ Return(c, Err("NoteNotFound", cmd[c].note_id))
    /\ UNCHANGED <<projects, slugs, thoughts, events, rx_open, received, container, locks, cmd>>

\* get, under the read guard.
NbGet(c) ==
    /\ pc[c] = "nb_get"
    /\ Return(c, IF cmd[c].note_id \in DOMAIN notes
                 THEN Ok(cmd[c].note_id)
                 ELSE Err("NoteNotFound", cmd[c].note_id))
    /\ UNCHANGED <<repos, events, rx_open, received, container, locks, cmd, loc, committed>>

\* sync, under the write guard: HashMap::insert of the note given, whether or
\* not its id is a key of the map.
NbSync(c) ==
    /\ pc[c] = "nb_sync"
    /\ notes' = Put(notes, cmd[c].note.note_id, cmd[c].note)
    /\ Return(c, Ok(cmd[c].note.note_id))
    /\ UNCHANGED <<projects, slugs, thoughts, events, rx_open, received, container, locks, cmd, loc,
                   committed>>

----------------------------------------------------------------------------
(* InMemoryThoughtBook (adapter/thought_book.rs) *)

\* Mutant: create_thought does not look at what the parent lookup returned.
TbGet_SkipsCheck(c) ==
    /\ pc[c] = "tb_get"
    /\ Goto(c, "tb_add")
    /\ UNCHANGED <<repos, events, rx_open, received, container, locks, cmd, loc, committed>>

\* get: a direct caller is handed the Option; create_thought, which calls
\* get(parent_id) for a command with a parent, rejects the command on None.
TbGet(c) ==
    /\ pc[c] = "tb_get"
    /\ IF cmd[c].op = "tb_get"
       THEN Return(c, Ok(IF cmd[c].thought_id \in DOMAIN thoughts
                         THEN cmd[c].thought_id
                         ELSE None))
       ELSE IF cmd[c].parent_id \in DOMAIN thoughts
       THEN Goto(c, "tb_add")
       ELSE Return(c, Err("InvalidParentReference", cmd[c].parent_id))
    /\ UNCHANGED <<repos, events, rx_open, received, container, locks, cmd, loc, committed>>

\* add, up to the insert: for a command with a parent, the read guard under
\* which the parent must be a key of the map.
TbAddCheck(c) ==
    /\ pc[c] = "tb_add"
    /\ IF cmd[c].parent_id = None \/ cmd[c].parent_id \in DOMAIN thoughts
       THEN Goto(c, "tb_insert")
       ELSE Return(c, Err("ParentThoughtDoesNotExist", None))
    /\ UNCHANGED <<repos, events, rx_open, received, container, locks, cmd, loc, committed>>

\* Mutant: add builds the thought without the parent of the command.
TbAddInsert_DropsParent(c) ==
    /\ pc[c] = "tb_insert"
    /\ thoughts' = Put(thoughts, c,
            [ thought_id |-> c, parent_id |-> None,
              project_id |-> loc[c], content |-> cmd[c].content ])
    /\ committed' = committed (+)
            SetToBag({Mutation("Thought", c, loc[c], "Created")})
    /\ Goto(c, "publish")
    /\ UNCHANGED <<projects, slugs, notes, events, rx_open, received, container, locks, cmd, loc>>

\* add, under the write guard: the insert.
TbAddInsert(c) ==
    /\ pc[c] = "tb_insert"
    /\ thoughts' = Put(thoughts, c,
            [ thought_id |-> c, parent_id |-> cmd[c].parent_id,
              project_id |-> ProjectArg(c), content |-> cmd[c].content ])
    /\ committed' = committed (+)
            SetToBag({Mutation("Thought", c, ProjectArg(c), "Created")})
    /\ Finish(c, Ok(c))
    /\ UNCHANGED <<projects, slugs, notes, events, rx_open, received, container, locks, cmd, loc>>

\* sync, under the write guard: HashMap::insert of the thought given, whether
\* or not its id is a key of the map.
TbSync(c) ==
    /\ pc[c] = "tb_sync"
    /\ thoughts' = Put(thoughts, cmd[c].thought.thought_id, cmd[c].thought)
    /\ Return(c, Ok(cmd[c].thought.thought_id))
    /\ UNCHANGED <<projects, slugs, notes, events, rx_open, received, container, locks, cmd, loc,
                   committed>>

----------------------------------------------------------------------------
(* ThoughtService::send_message and the channel *)

\* Mutant: scratch_note announces the note with the change kind of create_note.
EventOf_ScratchAsCreated(c) ==
    CASE cmd[c].op = "create_project" ->
            Mutation("Project", c, cmd[c].universe_id, "Created")
      [] cmd[c].op = "create_note" -> Mutation("Note", c, loc[c], "Created")
      [] cmd[c].op = "scratch_note" ->
            Mutation("Note", cmd[c].note_id, loc[c], "Created")
      [] cmd[c].op = "create_thought" ->
            Mutation("Thought", c, loc[c], "Created")

\* The ModelEvent a command builds from the entity its repository returned.
EventOf(c) ==
    CASE cmd[c].op = "create_project" ->
            Mutation("Project", c, cmd[c].universe_id, "Created")
      [] cmd[c].op = "create_note" -> Mutation("Note", c, loc[c], "Created")
      [] cmd[c].op = "scratch_note" ->
            Mutation("Note", cmd[c].note_id, loc[c], "Scratched")
      [] cmd[c].op = "create_thought" ->
            Mutation("Thought", c, loc[c], "Created")

\* The id of the entity a command returns.
EntityOf(c) == IF cmd[c].op = "scratch_note" THEN cmd[c].note_id ELSE c

\* Mutant: send_message builds the message and never sends it.
Publish_DropsEvent(c) ==
    /\ pc[c] = "publish"
    /\ events' = events
    /\ Return(c, IF rx_open THEN Ok(EntityOf(c)) ELSE Err("SendError", None))
    /\ UNCHANGED <<repos, rx_open, received, container, locks, cmd, loc, committed>>

\* Mutant: send_message ignores the result of send.
Publish_SwallowsSendError(c) ==
    /\ pc[c] = "publish"
    /\ events' = IF rx_open THEN Append(events, EventOf(c)) ELSE events
    /\ Return(c, Ok(EntityOf(c)))
    /\ UNCHANGED <<repos, rx_open, received, container, locks, cmd, loc, committed>>

\* Mutant: the message is put in front of the messages already sent.
Publish_JumpsQueue(c) ==
    /\ pc[c] = "publish"
    /\ IF rx_open
       THEN /\ events' = <<EventOf(c)>> \o events
            /\ Return(c, Ok(EntityOf(c)))
       ELSE /\ events' = events
            /\ Return(c, Err("SendError", None))
    /\ UNCHANGED <<repos, rx_open, received, container, locks, cmd, loc, committed>>

\* UnboundedSender::send fails when the receiving half was dropped, and
\* send_message hands the failure to the caller with `?`.
Publish(c) ==
    /\ pc[c] = "publish"
    /\ IF rx_open
       THEN /\ events' = Append(events, EventOf(c))
            /\ Return(c, Ok(EntityOf(c)))
       ELSE /\ events' = events
            /\ Return(c, Err("SendError", None))
    /\ UNCHANGED <<repos, rx_open, received, container, locks, cmd, loc, committed>>

\* The owner of the receiver drops it.
CloseReceiver ==
    /\ rx_open
    /\ rx_open' = FALSE
    /\ UNCHANGED <<repos, events, received, container, locks, pc, cmd, loc, res, committed>>

----------------------------------------------------------------------------
(* The POST /project/create handler (actor/api_app.rs) *)

\* format!("/project/{}", project.slug)
ProjectLocation(slug) ==
    <<"/", "p", "r", "o", "j", "e", "c", "t", "/">> \o slug

\* The response of the handler whose call of ThoughtService::create_project
\* is call c, once the service has returned: the match on the result.
create_project_response(c) ==
    IF res[c].ok
    THEN [status |-> "201 Created",
          location |-> ProjectLocation(NewProject(c, cmd[c]).slug)]
    ELSE IF res[c].err = "ProjectAlreadyExists"
    THEN [status |-> "409 Conflict", location |-> <<>>]
    ELSE [status |-> "500 Internal Server Error", location |-> <<>>]

\* The response of the create_thought handler whose call of
\* ThoughtService::create_thought is call c, once the service has returned.
create_thought_response(c) ==
    IF res[c].ok
    THEN [status |-> "201 Created", location |-> <<"/thought/", res[c].id>>]
    ELSE [status |-> "500 Internal Server Error", location |-> <<>>]

----------------------------------------------------------------------------
(* Project::generate_slug called on its own *)

\* The names given to generate_slug: every string of at most MaxNameLen
\* characters over letters of both cases, a digit, a space, punctuation, a
\* hyphen and a non-ASCII letter.
MaxNameLen == 3
SlugAlphabet == {"a", "B", "1", " ", "!", "-", "é"}
SlugNames == UNION {[1 .. n -> SlugAlphabet] : n \in 0 .. MaxNameLen}

\* The characters generate_slug turns into a separator.
Separators == {" ", "!", "-"}

\* The same letter in the other case.
SwapCase(c) ==
    CASE c = "a" -> "A"
      [] c = "A" -> "a"
      [] c = "b" -> "B"
      [] c = "B" -> "b"
      [] OTHER -> c

\* The names that differ from a name in the case of one letter, in one
\* surrounding space, or in the content of one run of separators (one
\* separator replaced, one separator added to the run).
Variants(name) ==
    {<<" ">> \o name, name \o <<" ">>}
    \cup {[name EXCEPT ![i] = SwapCase(name[i])] : i \in 1 .. Len(name)}
    \cup {[name EXCEPT ![i] = p] :
            i \in {j \in 1 .. Len(name) : name[j] \in Separators},
            p \in Separators}
    \cup {SubSeq(name, 1, i) \o <<p>> \o SubSeq(name, i + 1, Len(name)) :
            i \in {j \in 1 .. Len(name) : name[j] \in Separators},
            p \in Separators}

\* The first call is generate_slug(name) for a name of SlugNames.
InitSlug ==
    /\ projects = EmptyMap
    /\ slugs = EmptyMap
    /\ notes = EmptyMap
    /\ thoughts = EmptyMap
    /\ events = <<>>
    /\ rx_open = TRUE
    /\ received = <<>>
    /\ container = NewContainer
    /\ locks = Unlocked
    /\ \E name \in SlugNames :
        cmd = [c \in Calls |->
                IF c = 1
                THEN [op |-> "generate_slug", name |-> name, of |-> "input"]
                ELSE [op |-> "none"]]
    /\ pc = [c \in Calls |-> IF c = 1 THEN "generate_slug" ELSE "idle"]
    /\ loc = [c \in Calls |-> None]
    /\ res = [c \in Calls |-> Pending]
    /\ committed = EmptyBag

\* generate_slug is called on the slug the call before returned.
StartSlugOfSlug(c) ==
    /\ c > 1
    /\ IF c > 1 THEN pc[c - 1] = "done" ELSE FALSE
    /\ Begin(c, [op |-> "generate_slug", name |-> res[c - 1].id, of |-> "slug"])

\* generate_slug is called on a variant of the name given to the call before.
StartSlugOfVariant(c) ==
    /\ c > 1
    /\ IF c > 1 THEN pc[c - 1] = "done" ELSE FALSE
    /\ \E name \in Variants(cmd[c - 1].name) :
        Begin(c, [op |-> "generate_slug", name |-> name, of |-> "variant"])

\* The call of generate_slug: the slug is the value returned.
GenerateSlug(c) ==
    /\ pc[c] = "generate_slug"
    /\ Return(c, Ok(generate_slug(cmd[c].name)))
    /\ UNCHANGED <<repos, events, rx_open, received, container, locks, cmd, loc, committed>>

\* The holder of the receiver (the event dispatcher started by
\* Application::run) takes the next message of the channel: the one channel of
\* the container is a queue, and the oldest message not yet taken comes out.
Receive ==
    /\ rx_open
    /\ Len(received) < Len(events)
    /\ received' = Append(received, events[Len(received) + 1])
    /\ UNCHANGED <<repos, events, rx_open, container, locks, pc, cmd, loc, res,
                   committed>>

----------------------------------------------------------------------------
(* Container (container.rs) *)

\* OnceCell::get_or_init of a repository cell: the instance in the cell, or a
\* new instance put in it.
WithNoteBook(k) ==
    IF k.note_book # None THEN k
    ELSE [k EXCEPT !.note_book = k.allocated + 1, !.allocated = @ + 1]

WithProjectBook(k) ==
    IF k.project_book # None THEN k
    ELSE [k EXCEPT !.project_book = k.allocated + 1, !.allocated = @ + 1]

\* event_publisher: get_or_init(unbounded_channel) on the cell of the channel.
WithChannel(k) ==
    IF k.event_publisher # None THEN k
    ELSE [k EXCEPT !.event_publisher = k.allocated + 1, !.allocated = @ + 1]

\* The value a method returns is held by its caller from then on.
HandOut(k, kind, ref) ==
    [k EXCEPT !.handles = @ \cup {[kind |-> kind, ref |-> ref]},
              !.calls = @ + 1]

\* A method of the container may be called.
Callable == container.alive /\ container.calls < MaxContainerCalls

Others ==
    <<repos, events, rx_open, received, locks, pc, cmd, loc, res, committed>>

\* Mutant: note_book builds a new repository at every call.
NoteBookCall_NewEachTime ==
    /\ Callable
    /\ container' =
            HandOut([container EXCEPT !.note_book = container.allocated + 1,
                                      !.allocated = @ + 1],
                    "note_book", container.allocated + 1)
    /\ UNCHANGED Others

\* note_book()
NoteBookCall ==
    /\ Callable
    /\ LET k == WithNoteBook(container)
       IN  container' = HandOut(k, "note_book", k.note_book)
    /\ UNCHANGED Others

\* project_book()
ProjectBookCall ==
    /\ Callable
    /\ LET k == WithProjectBook(container)
       IN  container' = HandOut(k, "project_book", k.project_book)
    /\ UNCHANGED Others

\* event_publisher_sender(): a clone of the sender of the channel in the cell.
EventPublisherSenderCall ==
    /\ Callable
    /\ LET k == WithChannel(container)
       IN  container' = HandOut(k, "sender", k.event_publisher)
    /\ UNCHANGED Others

\* thought_service(): note_book(), project_book() and
\* event_publisher_sender() are called first, then get_or_init keeps the
\* service of the cell or builds one from the three values.
ThoughtServiceCall ==
    /\ Callable
    /\ LET k == WithChannel(WithProjectBook(WithNoteBook(container)))
           service ==
               IF k.thought_service.set THEN k.thought_service
               ELSE [set |-> TRUE,
                     note_book |-> k.note_book,
                     project_book |-> k.project_book,
                     sender |-> k.event_publisher]
       IN  container' = HandOut([k EXCEPT !.thought_service = service],
                                "thought_service", None)
    /\ UNCHANGED Others

\* event_publisher_receiver(): the channel is initialized if it is not, then
\* the cell is emptied with take() and the receiver of the pair is returned.
EventPublisherReceiverCall ==
    /\ Callable
    /\ LET k == WithChannel(container)
       IN  container' = HandOut([k EXCEPT !.event_publisher = None],
                                "receiver", k.event_publisher)
    /\ UNCHANGED Others

\* event_dispatcher(): an EventDispatcher around event_publisher_receiver().
EventDispatcherCall ==
    /\ Callable
    /\ LET k == WithChannel(container)
       IN  container' = HandOut([k EXCEPT !.event_publisher = None],
                                "dispatcher", k.event_publisher)
    /\ UNCHANGED Others

\* destroy(): the container is consumed; a receiver still in its cell is
\* dropped with it.
Destroy ==
    /\ container.alive
    /\ container' =
            [container EXCEPT
                !.alive = FALSE,
                !.closed = IF container.event_publisher = None THEN @
                           ELSE @ \cup {container.event_publisher},
                !.event_publisher = None]
    /\ UNCHANGED Others

\* The holder of a receiver (or of the dispatcher around it) drops it.
DropReceiver ==
    /\ \E h \in container.handles :
        /\ h.kind \in {"receiver", "dispatcher"}
        /\ h.ref \notin container.closed
        /\ container' = [container EXCEPT !.closed = @ \cup {h.ref}]
    /\ UNCHANGED Others

----------------------------------------------------------------------------
(* The RwLock guards of the repositories (tokio::sync::RwLock) *)

ReadGuard(l) == [lock |-> l, mode |-> "read"]
WriteGuard(l) == [lock |-> l, mode |-> "write"]

\* A guard lives until the end of the critical section it was taken for:
\* the guards of lock l that are still held.
Guards(l) == {h \in locks.holders[l] : h.stage = pc[h.call]}

\* The locks call c holds a guard of, and those it waits for.
Held(c) == {l \in LockNames : \E h \in Guards(l) : h.call = c}
Waiting(c) ==
    {l \in LockNames :
        \E i \in 1 .. Len(locks.queue[l]) : locks.queue[l][i].call = c}

\* A guard of lock l in this mode can be given now.
Free(l, mode) ==
    IF mode = "read" THEN \A h \in Guards(l) : h.mode = "read"
    ELSE Guards(l) = {}

\* Mutant: update takes the write guard of slugs before that of projects.
Needs_UpdateSlugsFirst(c) ==
    CASE pc[c] = "pb_create" -> <<ReadGuard("slugs")>>
      [] pc[c] \in {"pb_insert", "pb_delete"} ->
            <<WriteGuard("projects"), WriteGuard("slugs")>>
      [] pc[c] = "pb_update" ->
            <<WriteGuard("slugs"), WriteGuard("projects")>>
      [] pc[c] = "get_by_slug" -> <<ReadGuard("slugs")>>
      [] pc[c] \in {"get", "pb_list"} -> <<ReadGuard("projects")>>
      [] pc[c] \in {"nb_add", "nb_sync", "nb_delete"} -> <<WriteGuard("notes")>>
      [] pc[c] = "nb_get" -> <<ReadGuard("notes")>>
      [] pc[c] = "tb_get" -> <<ReadGuard("thoughts")>>
      [] pc[c] = "tb_add" ->
            IF cmd[c].parent_id = None THEN <<>>
            ELSE <<ReadGuard("thoughts")>>
      [] pc[c] \in {"tb_insert", "tb_sync"} -> <<WriteGuard("thoughts")>>
      [] OTHER -> <<>>

\* The guards the code takes for the critical section call c stands before,
\* in the order it takes them.  The guard of the duplicate check of create
\* and the guard of the parent check of add are temporaries of an if
\* condition; get_by_slug drops its guard of slugs before it calls get;
\* send_message takes no guard.
Needs(c) ==
    CASE pc[c] = "pb_create" -> <<ReadGuard("slugs")>>
      [] pc[c] \in {"pb_insert", "pb_update", "pb_delete"} ->
            <<WriteGuard("projects"), WriteGuard("slugs")>>
      [] pc[c] = "get_by_slug" -> <<ReadGuard("slugs")>>
      [] pc[c] \in {"get", "pb_list"} -> <<ReadGuard("projects")>>
      [] pc[c] \in {"nb_add", "nb_sync", "nb_delete"} -> <<WriteGuard("notes")>>
      [] pc[c] = "nb_get" -> <<ReadGuard("notes")>>
      [] pc[c] = "tb_get" -> <<ReadGuard("thoughts")>>
      [] pc[c] = "tb_add" ->
            IF cmd[c].parent_id = None THEN <<>>
            ELSE <<ReadGuard("thoughts")>>
      [] pc[c] \in {"tb_insert", "tb_sync"} -> <<WriteGuard("thoughts")>>
      [] OTHER -> <<>>

\* The guards of Needs that call c does not hold yet.
Missing(c) == SelectSeq(Needs(c), LAMBDA n : n.lock \notin Held(c))

\* lock.read() / lock.write(): the call gets the guard at once when the lock
\* is free and nobody waits for it, and joins the waiters otherwise.
LockRequest(c) ==
    /\ Waiting(c) = {}
    /\ Missing(c) # <<>>
    /\ LET n == Head(Missing(c))
           g == [call |-> c, mode |-> n.mode, stage |-> pc[c]]
       IN  IF locks.queue[n.lock] = <<>> /\ Free(n.lock, n.mode)
           THEN locks' = [locks EXCEPT !.holders[n.lock] = Guards(n.lock) \cup {g}]
           ELSE locks' = [locks EXCEPT !.queue[n.lock] = Append(@, g)]
    /\ UNCHANGED <<repos, events, rx_open, received, container, pc, cmd, loc,
                   res, committed>>

\* .await of the guard: the first waiter gets the lock once it is free, a
\* reader beside readers, a writer alone.
LockGrant(c) ==
    /\ \E l \in LockNames :
        /\ locks.queue[l] # <<>>
        /\ Head(locks.queue[l]).call = c
        /\ Free(l, Head(locks.queue[l]).mode)
        /\ locks' = [locks EXCEPT
                        !.queue[l] = Tail(@),
                        !.holders[l] = Guards(l) \cup {Head(locks.queue[l])}]
    /\ UNCHANGED <<repos, events, rx_open, received, container, pc, cmd, loc,
                   res, committed>>

\* The critical section, or the send, that call c stands before, once c
\* holds the guards it takes for it.  Its guards are dropped with it.
LockedStep(c) ==
    /\ Missing(c) = <<>>
    /\ \/ PbCreateCheck(c)
       \/ PbCreateInsert(c)
       \/ PbUpdate(c)
       \/ PbDelete(c)
       \/ GetBySlugRead(c)
       \/ GetRead(c)
       \/ PbList(c)
       \/ NbAdd(c)
       \/ NbDelete(c)
       \/ TbGet(c)
       \/ TbAddCheck(c)
       \/ TbAddInsert(c)
       \/ Publish(c)

\* The calls made while the locks are watched: the six operations of the
\* project repository and the four commands of the service, each with one
\* choice of arguments (a stored project, its slug, a name with that slug).
LockCommands ==
    {k \in BookCommands :
        IF k.op = "pb_create" THEN k.project_name = <<"A", "b">>
        ELSE IF k.op = "pb_update"
        THEN k.project.project_id = SeedId /\ k.project.slug = <<"e">>
        ELSE k.project_id = SeedId}
    \cup {k \in ReadCommands :
        IF k.op = "pb_get" THEN k.project_id = SeedId
        ELSE IF k.op = "pb_get_by_slug" THEN k.slug = <<"a", "b">>
        ELSE k.universe_id = 1}
    \cup {k \in ServiceCommands :
        IF k.op = "create_project" THEN k.project_name = <<"A", "b">>
        ELSE IF k.op = "create_note"
        THEN k.project_slug = <<"a", "b">> /\ k.content = "text"
        ELSE IF k.op = "scratch_note" THEN k.note_id = SeedId
        ELSE k.project_slug = <<"a", "b">> /\ k.parent_id = SeedId}

\* The operations of the project repository called on it directly.
BookOps ==
    {"pb_create", "pb_update", "pb_delete", "pb_get", "pb_get_by_slug",
     "pb_list"}

\* Any two calls run together; a call beyond MaxMixedCalls is made when it
\* and the calls before it are operations of the project repository.
MaxMixedCalls == 2
StartLocked(c) ==
    \E k \in LockCommands :
        /\ IF c > MaxMixedCalls
           THEN k.op \in BookOps /\ \A d \in 1 .. c - 1 : cmd[d].op \in BookOps
           ELSE TRUE
        /\ Begin(c, k)

\* Call c has returned to its caller.
Returned(c) == pc[c] = "done"

----------------------------------------------------------------------------
(* Specifications *)

\* The methods of one Container, called in any order.
NextContainer ==
    \/ NoteBookCall
    \/ ProjectBookCall
    \/ EventPublisherSenderCall
    \/ ThoughtServiceCall
    \/ EventPublisherReceiverCall
    \/ EventDispatcherCall
    \/ Destroy
    \/ DropReceiver

SpecContainer == Init /\ [][NextContainer]_vars

\* The repositories and the service with every lock acquisition a step of
\* its own.
NextLocks ==
    \E c \in Calls :
        \/ StartLocked(c)
        \/ LockRequest(c)
        \/ LockGrant(c)
        \/ LockedStep(c)

\* The runtime polls every task that can go on, and a RwLock wakes its
\* waiters in order: no call that can take a step waits forever.  Callers are
\* free not to call.
FairLocks ==
    \A c \in Calls :
        /\ WF_<<pc, locks>>(LockRequest(c))
        /\ WF_<<pc, locks>>(LockGrant(c))
        /\ WF_<<pc, locks>>(LockedStep(c))

SpecLocks == Init /\ [][NextLocks]_vars /\ FairLocks


\* One step of a call that is inside a ThoughtService command.
ServiceStep(c) ==
    \/ GetBySlugRead(c)
    \/ GetRead(c)
    \/ PbCreateCheck(c)
    \/ PbCreateInsert(c)
    \/ NbAdd(c)
    \/ NbDelete(c)
    \/ TbGet(c)
    \/ TbAddCheck(c)
    \/ TbAddInsert(c)
    \/ Publish(c)

\* The service with a receiver that its owner may drop.
Next ==
    \/ \E c \in Calls : StartService(c) \/ ServiceStep(c)
    \/ CloseReceiver

Spec == Init /\ [][Next]_vars

\* The service while the dispatcher holds the receiver.
NextOpen == \E c \in Calls : StartService(c) \/ ServiceStep(c)

SpecOpen == Init /\ [][NextOpen]_vars

\* The service and the dispatcher that takes the messages off the channel.
NextChannel ==
    \/ \E c \in Calls : StartService(c) \/ ServiceStep(c)
    \/ Receive

SpecChannel == Init /\ [][NextChannel]_vars

\* create_note while other holders of the project repository create, update
\* and delete projects.
NextCreateNote ==
    \E c \in Calls :
        \/ StartCreateNote(c)
        \/ StartBook(c)
        \/ GetBySlugRead(c)
        \/ GetRead(c)
        \/ NbAdd(c)
        \/ Publish(c)
        \/ PbCreateCheck(c)
        \/ PbCreateInsert(c)
        \/ PbUpdate(c)
        \/ PbDelete(c)

SpecCreateNote == Init /\ [][NextCreateNote]_vars

\* generate_slug applied to a name, then to the slugs it returns and to
\* variants of the names it was given.
NextSlug ==
    \E c \in Calls :
        \/ StartSlugOfSlug(c)
        \/ StartSlugOfVariant(c)
        \/ GenerateSlug(c)

SpecSlug == InitSlug /\ [][NextSlug]_vars

\* Projects created, through the service and on the repository, with names
\* at the edge of the validation.
NextEdge ==
    \E c \in Calls :
        \/ StartCreateEdge(c)
        \/ GetBySlugRead(c)
        \/ GetRead(c)
        \/ PbCreateCheck(c)
        \/ PbCreateInsert(c)
        \/ Publish(c)

SpecEdge == Init /\ [][NextEdge]_vars

\* Thoughts created through the HTTP handler and through the service.
NextPostThought ==
    \E c \in Calls :
        \/ PostThought(c)
        \/ StartCreateThought(c)
        \/ GetBySlugRead(c)
        \/ GetRead(c)
        \/ TbGet(c)
        \/ TbAddCheck(c)
        \/ TbAddInsert(c)
        \/ Publish(c)

SpecPostThought == Init /\ [][NextPostThought]_vars

\* The project repository under direct calls of create, update and delete.
NextBook ==
    \E c \in Calls :
        \/ StartBook(c)
        \/ PbCreateCheck(c)
        \/ PbCreateInsert(c)
        \/ PbUpdate(c)
        \/ PbDelete(c)

SpecBook == Init /\ [][NextBook]_vars

\* The project repository under direct calls of its writes and its reads.
NextReads ==
    \E c \in Calls :
        \/ StartBook(c)
        \/ StartRead(c)
        \/ PbCreateCheck(c)
        \/ PbCreateInsert(c)
        \/ PbUpdate(c)
        \/ PbDelete(c)
        \/ GetBySlugRead(c)
        \/ GetRead(c)
        \/ PbList(c)

SpecReads == Init /\ [][NextReads]_vars

\* The note repository under direct calls of add, get, sync and delete.
NextNotes ==
    \E c \in Calls :
        \/ StartNoteBook(c)
        \/ NbAdd(c)
        \/ NbGet(c)
        \/ NbSync(c)
        \/ NbDelete(c)

SpecNotes == Init /\ [][NextNotes]_vars

\* The thought repository under direct calls of add, get and sync.
NextThoughts ==
    \E c \in Calls :
        \/ StartThoughtBook(c)
        \/ TbAddCheck(c)
        \/ TbAddInsert(c)
        \/ TbGet(c)
        \/ TbSync(c)

SpecThoughts == Init /\ [][NextThoughts]_vars

----------------------------------------------------------------------------
(* Claims *)

Done(c) == pc[c] = "done"

IsOp(c, op) == cmd[c].op = op

\* C1: in every reachable state of the project repository, under any
\* interleaving of concurrent create, update and delete calls, no two stored
\* projects have the same slug.
C1_SlugGloballyUnique ==
    \A i \in DOMAIN projects : \A j \in DOMAIN projects :
        i # j => projects[i].slug # projects[j].slug

\* C2: of two create_project calls whose (valid) names produce the same slug,
\* when no other stored project has that slug, exactly one returns the
\* created project and the other returns ProjectAlreadyExists.
C2_ExactlyOneCreateProject ==
    \A c \in Calls : \A d \in Calls :
        ( /\ c # d
          /\ Done(c) /\ Done(d)
          /\ IsOp(c, "create_project") /\ IsOp(d, "create_project")
          /\ NameIsValid(cmd[c].project_name) /\ NameIsValid(cmd[d].project_name)
          /\ generate_slug(cmd[c].project_name) = generate_slug(cmd[d].project_name)
          /\ \A i \in DOMAIN projects \ {c, d} :
                projects[i].slug # generate_slug(cmd[c].project_name) )
        => \/ res[c] = Ok(c) /\ res[d] = Err("ProjectAlreadyExists", None)
           \/ res[d] = Ok(d) /\ res[c] = Err("ProjectAlreadyExists", None)

\* C3: ProjectBook.create checks for a duplicate slug and inserts in one
\* critical section, so of the ProjectBook.create calls with the same slug
\* (no update or delete being called) at most one returns a project and every
\* other returns DuplicateSlug.
C3_CreateIsOneCriticalSection ==
    \A c \in Calls : \A d \in Calls :
        ( /\ c # d
          /\ Done(c) /\ Done(d)
          /\ IsOp(c, "pb_create") /\ IsOp(d, "pb_create")
          /\ NameIsValid(cmd[c].project_name) /\ NameIsValid(cmd[d].project_name)
          /\ generate_slug(cmd[c].project_name) = generate_slug(cmd[d].project_name)
          /\ \A e \in Calls : cmd[e].op \notin {"pb_update", "pb_delete"} )
        => /\ ~(res[c].ok /\ res[d].ok)
           /\ res[c].ok => res[d] = Err("DuplicateSlug", None)

\* The events of the channel, and how many of them equal m.
Published == {events[i] : i \in 1 .. Len(events)}
CountPublished(m) == Cardinality({i \in 1 .. Len(events) : events[i] = m})

\* The mutations and events about entity id of a kind.
About(kind, id) ==
    {m \in BagToSet(committed) \cup Published : m.kind = kind /\ m.id = id}

\* Call c takes a step.
Steps(c) == pc'[c] # pc[c]

Succeeded == {c \in Calls : Done(c) /\ res[c].ok}

\* C4: while the event channel is open, the number of events published equals
\* the number of commands that returned success: each successful command
\* published exactly one event, its own, and each failed command none.
C4_OneEventPerSuccess ==
    rx_open =>
        /\ Len(events) = Cardinality(Succeeded)
        /\ \A c \in Succeeded : CountPublished(EventOf(c)) = 1

C4_Witness ==
    /\ rx_open
    /\ Len(events) = 2
    /\ \E c \in Calls : Done(c) /\ ~res[c].ok

\* C5: every event in the channel describes a mutation that was committed to
\* its repository before the event was published, and no mutation is described
\* by two events: an event occurs at most as often as its mutation was written.
C5_EventsFollowCommits ==
    \A m \in Published :
        /\ CountPublished(m) <= CopiesIn(m, committed)
        /\ CopiesIn(m, committed) = 1

C5_Witness ==
    /\ \E m \in Published : m.kind = "Note" /\ m.change = "Scratched"
    /\ \E m \in Published : m.kind = "Note" /\ m.change = "Created"

\* What a command wrote is in place: the created entity is stored (a created
\* note unless a scratch removed it since), the scratched note is absent.
Visible(c) ==
    CASE IsOp(c, "create_project") -> c \in DOMAIN projects
      [] IsOp(c, "create_note") -> c \in DOMAIN notes \/ c \in ScratchedIds
      [] IsOp(c, "create_thought") -> c \in DOMAIN thoughts
      [] IsOp(c, "scratch_note") -> cmd[c].note_id \notin DOMAIN notes

\* C6: when the receiving end of the channel is closed, a command whose
\* resolution and repository write succeeded returns an error, and its
\* mutation stays committed: the step that fails to publish changes no
\* repository, and what the command wrote is visible afterwards.
C6_ClosedChannelSurfaces ==
    [][ \A c \in Calls :
            (pc[c] = "publish" /\ ~rx_open /\ Steps(c))
            => /\ pc'[c] = "done"
               /\ ~res'[c].ok
               /\ res'[c].err = "SendError"
               /\ repos' = repos
               /\ Visible(c)' ]_vars

C6_Witness ==
    \E c \in Calls : \E d \in Calls :
        /\ Done(c) /\ IsOp(c, "create_note")
        /\ res[c].err = "SendError" /\ c \in DOMAIN notes
        /\ Done(d) /\ IsOp(d, "scratch_note")
        /\ res[d].err = "SendError" /\ cmd[d].note_id \notin DOMAIN notes

\* The lookup of the call's slug finds no project at this step.
ResolvesToNone(c) ==
    \/ pc[c] = "get_by_slug" /\ LookupSlug(cmd[c]) \notin DOMAIN slugs
    \/ pc[c] = "get" /\ loc[c] \notin DOMAIN projects

\* C7: create_note with a project_slug that resolves to no project returns
\* ProjectNotFound, leaves the note repository unchanged and publishes no
\* event: the step that finds no project ends the call so, and a call that
\* returned ProjectNotFound wrote no note and published nothing.
C7_CreateNoteProjectNotFound ==
    [][ \A c \in Calls :
            /\ (IsOp(c, "create_note") /\ ResolvesToNone(c) /\ Steps(c))
               => /\ pc'[c] = "done"
                  /\ res'[c] = Err("ProjectNotFound", None)
                  /\ notes' = notes
                  /\ events' = events
            /\ (IsOp(c, "create_note") /\ Done(c)
                    /\ res[c].err = "ProjectNotFound")'
               => (c \notin DOMAIN notes /\ About("Note", c) = {})' ]_vars

C7_Witness ==
    \E c \in Calls :
        /\ Done(c) /\ IsOp(c, "create_note")
        /\ res[c] = Err("ProjectNotFound", None)
        /\ notes # EmptyMap

ScratchedTwice(c, d) ==
    /\ c # d
    /\ IsOp(c, "scratch_note") /\ IsOp(d, "scratch_note")
    /\ cmd[c].note_id = cmd[d].note_id
    /\ cmd[c].note_id # UnknownId
    /\ \A e \in Calls \ {c, d} :
            ~(IsOp(e, "scratch_note") /\ cmd[e].note_id = cmd[c].note_id)

SlugIsStored(c) ==
    \E i \in DOMAIN projects : projects[i].slug = generate_slug(cmd[c].project_name)

\* C10: create_project, called when a project with the slug of the given name
\* is stored, returns ProjectAlreadyExists without calling ProjectBook.create,
\* leaves the project repository unchanged and publishes no event.
C10_CreateProjectFailsFast ==
    [][ \A c \in Calls :
            /\ (IsOp(c, "create_project") /\ pc[c] = "get_by_slug"
                    /\ SlugIsStored(c) /\ Steps(c))
               => /\ pc'[c] = "get"
                  /\ loc'[c] \in DOMAIN projects
                  /\ projects[loc'[c]].slug = generate_slug(cmd[c].project_name)
                  /\ UNCHANGED <<repos, events>>
            /\ (IsOp(c, "create_project") /\ pc[c] = "get" /\ Steps(c))
               => /\ pc'[c] = "done"
                  /\ res'[c] = Err("ProjectAlreadyExists", None)
                  /\ UNCHANGED <<repos, events>>
            /\ (IsOp(c, "create_project") /\ Done(c)
                    /\ res[c].err = "ProjectAlreadyExists")'
               => (c \notin DOMAIN projects /\ About("Project", c) = {})' ]_vars

C10_Witness ==
    \E c \in Calls :
        /\ Done(c) /\ IsOp(c, "create_project")
        /\ res[c] = Err("ProjectAlreadyExists", None)
        /\ \E i \in DOMAIN projects : i # SeedId /\ i < c

\* The number of events in the channel about entity id with this change.
CountEvents(kind, id, change) ==
    Cardinality({i \in 1 .. Len(events) :
        /\ events[i].kind = kind
        /\ events[i].id = id
        /\ events[i].change = change})

C12_ScratchNoteSuccess ==
    [][ \A c \in Calls :
            /\ (IsOp(c, "scratch_note") /\ pc[c] = "nb_delete" /\ Steps(c)
                    /\ cmd[c].note_id \in DOMAIN notes)
               => /\ cmd[c].note_id \notin DOMAIN notes'
                  /\ loc'[c] = notes[cmd[c].note_id].project_id
            /\ (IsOp(c, "scratch_note") /\ pc[c] = "publish" /\ Steps(c)
                    /\ res'[c].ok)
               => /\ res'[c] = Ok(cmd[c].note_id)
                  /\ events' = Append(events,
                        Mutation("Note", cmd[c].note_id, loc[c], "Scratched"))
            /\ (IsOp(c, "scratch_note") /\ Done(c) /\ res[c].ok)'
               => ( /\ cmd[c].note_id \notin DOMAIN notes
                    /\ CountEvents("Note", cmd[c].note_id, "Scratched") = 1 )'
      ]_vars

C12_Witness ==
    \E c \in Calls : \E d \in Calls :
        /\ IsOp(d, "create_note") /\ IsOp(c, "scratch_note")
        /\ cmd[c].note_id = d
        /\ Done(c) /\ res[c] = Ok(d)
        /\ notes # EmptyMap

\* C13: when create_project succeeds, get_by_slug under the slug derived from
\* the name finds the project (the slugs map leads to it), which carries the
\* given name and universe_id, and exactly one Project/Created event with its
\* project_id and universe_id is published.
C13_CreateProjectSuccess ==
    [][ \A c \in Calls :
            /\ (IsOp(c, "create_project") /\ pc[c] = "publish" /\ Steps(c)
                    /\ res'[c].ok)
               => /\ res'[c] = Ok(c)
                  /\ generate_slug(cmd[c].project_name) \in DOMAIN slugs'
                  /\ slugs'[generate_slug(cmd[c].project_name)] = c
                  /\ c \in DOMAIN projects'
                  /\ projects'[c].project_name = cmd[c].project_name
                  /\ projects'[c].universe_id = cmd[c].universe_id
                  /\ events' = Append(events,
                        Mutation("Project", c, cmd[c].universe_id, "Created"))
            /\ (IsOp(c, "create_project") /\ Done(c) /\ res[c].ok)'
               => (CountEvents("Project", c, "Created") = 1)' ]_vars

\* C14: when create_thought succeeds, the stored thought has the project_id of
\* a project that project_slug resolved to and the parent_id of the command
\* (unset, or the id of a stored thought), and exactly one Thought/Created
\* event with its thought_id and project_id is published.
C14_CreateThoughtSuccess ==
    [][ \A c \in Calls :
            /\ (IsOp(c, "create_thought") /\ pc[c] = "publish" /\ Steps(c)
                    /\ res'[c].ok)
               => /\ res'[c] = Ok(c)
                  /\ events' = Append(events,
                        Mutation("Thought", c, thoughts'[c].project_id,
                                 "Created"))
            /\ (IsOp(c, "create_thought") /\ Done(c) /\ res[c].ok)'
               => ( /\ c \in DOMAIN thoughts
                    /\ thoughts[c].parent_id = cmd[c].parent_id
                    /\ cmd[c].parent_id # None
                        => cmd[c].parent_id \in DOMAIN thoughts
                    /\ thoughts[c].project_id \in DOMAIN projects
                    /\ projects[thoughts[c].project_id].slug
                            = cmd[c].project_slug
                    /\ CountEvents("Thought", c, "Created") = 1 )' ]_vars

C14_Witness ==
    \E c \in Calls : \E d \in Calls :
        /\ Done(c) /\ IsOp(c, "create_thought") /\ res[c] = Ok(c)
        /\ Done(d) /\ IsOp(d, "create_thought") /\ res[d] = Ok(d)
        /\ thoughts[c].parent_id = d
        /\ thoughts[d].parent_id = None
        /\ thoughts[c].project_id # SeedId

\* C15: create_thought with a project_slug that resolves to no project returns
\* ProjectNotFound whatever its parent_id: the step that finds no project ends
\* the call, which neither reads nor changes the thought repository (it never
\* reaches get or add) and publishes no event.
C15_CreateThoughtProjectNotFound ==
    [][ \A c \in Calls :
            /\ (IsOp(c, "create_thought") /\ ResolvesToNone(c) /\ Steps(c))
               => /\ pc'[c] = "done"
                  /\ res'[c] = Err("ProjectNotFound", None)
                  /\ thoughts' = thoughts
                  /\ events' = events
            /\ (IsOp(c, "create_thought") /\ Steps(c)
                    /\ pc'[c] \in {"tb_get", "tb_add", "tb_insert"})
               => /\ loc'[c] \in DOMAIN projects
                  /\ projects[loc'[c]].slug = cmd[c].project_slug
            /\ (IsOp(c, "create_thought") /\ Done(c)
                    /\ res[c].err = "ProjectNotFound")'
               => (c \notin DOMAIN thoughts /\ About("Thought", c) = {})'
      ]_vars

C15_Witness ==
    \E c \in Calls :
        /\ Done(c) /\ IsOp(c, "create_thought")
        /\ res[c] = Err("ProjectNotFound", None)
        /\ cmd[c].parent_id = UnknownId
        /\ thoughts # EmptyMap

\* The thoughts reached from thought t by following parent_id up to n times.
RECURSIVE Ancestors(_, _)
Ancestors(t, n) ==
    IF n = 0 \/ t \notin DOMAIN thoughts
    THEN {}
    ELSE IF thoughts[t].parent_id = None
    THEN {}
    ELSE {thoughts[t].parent_id} \cup Ancestors(thoughts[t].parent_id, n - 1)

\* C16: in every state reached by add and sync operations of the thought
\* repository, the parent_id pointers of the stored thoughts form a forest:
\* following parent_id from a stored thought never leads back to it.
C16_ParentsFormForest ==
    \A t \in DOMAIN thoughts :
        t \notin Ancestors(t, Cardinality(DOMAIN thoughts))

\* C17: in every reachable state of the thought repository a stored thought
\* whose parent_id is set references a stored thought, and add with a
\* parent_id that is not stored returns an error and inserts nothing.
C17_ParentIsStored ==
    [][ /\ (\A t \in DOMAIN thoughts :
                thoughts[t].parent_id # None
                => thoughts[t].parent_id \in DOMAIN thoughts)'
        /\ \A c \in Calls :
            (IsOp(c, "tb_add") /\ pc[c] = "tb_add" /\ Steps(c)
                /\ cmd[c].parent_id # None
                /\ cmd[c].parent_id \notin DOMAIN thoughts)
            => /\ pc'[c] = "done"
               /\ ~res'[c].ok
               /\ thoughts' = thoughts ]_vars

\* C18: the parent_id of a stored thought never changes: no operation of the
\* thought repository, sync included, leaves a stored thought with another
\* parent_id than it had.
C18_ParentNeverChanges ==
    [][ \A t \in DOMAIN thoughts :
            t \in DOMAIN thoughts'
            => thoughts'[t].parent_id = thoughts[t].parent_id ]_vars

\* C19: deleting a note is terminal: an id that delete removed is absent from
\* the note repository in every later state, whatever add, sync, get and
\* delete operations follow or interleave.
C19_DeleteIsTerminal ==
    \A i \in ScratchedIds : i \notin DOMAIN notes

\* C20: the project repository is linearizable per key.  At the step a read
\* takes, every project stored (by a create or update that returned) is
\* reflected: get finds a stored id and no other, get_by_slug is led by the
\* slug of a stored project to that project and finds nothing under a slug no
\* stored project has, and list_by_universe returns the stored projects of the
\* universe; so a created project is found by id and by slug and is listed,
\* and a deleted one is found by none of them.
C20_ReadsReflectWrites ==
    [][ \A r \in Calls :
            /\ (IsOp(r, "pb_get") /\ pc[r] = "get" /\ Steps(r))
               => res'[r] = Ok(IF cmd[r].project_id \in DOMAIN projects
                               THEN cmd[r].project_id
                               ELSE None)
            /\ (IsOp(r, "pb_get_by_slug") /\ pc[r] = "get_by_slug" /\ Steps(r))
               => /\ \A i \in DOMAIN projects :
                        projects[i].slug = cmd[r].slug
                        => (pc'[r] = "get" /\ loc'[r] = i)
                  /\ (\A i \in DOMAIN projects :
                            projects[i].slug # cmd[r].slug)
                        => res'[r] = Ok(None)
            /\ (IsOp(r, "pb_list") /\ pc[r] = "pb_list" /\ Steps(r))
               => /\ res'[r].ok
                  /\ res'[r].list =
                        {i \in DOMAIN projects :
                            projects[i].universe_id = cmd[r].universe_id}
      ]_vars

----------------------------------------------------------------------------
(* ProjectBook.update and the slug mapping *)

\* C21: ProjectBook.update replaces the slug mapping atomically.  The step of
\* an update whose new slug is mapped to another project id returns
\* DuplicateSlug; the step of an update that succeeds leaves the new slug
\* mapped to the project and, where the slug changed, the old slug no longer
\* mapped to it; and no half-done replacement is left for other operations
\* to observe: an update that is rejected leaves both maps as they were.
C21_UpdateReplacesSlugAtomically ==
    [][ \A c \in Calls :
            (IsOp(c, "pb_update") /\ pc[c] = "pb_update" /\ Steps(c))
            => LET p == cmd[c].project
                   i == p.project_id
               IN  /\ (p.slug \in DOMAIN slugs /\ slugs[p.slug] # i)
                      => res'[c] = Err("DuplicateSlug", None)
                   /\ res'[c].ok
                      => /\ p.slug \in DOMAIN slugs'
                         /\ slugs'[p.slug] = i
                         /\ \A s \in DOMAIN slugs' :
                                slugs'[s] = i => s = p.slug
                   /\ ~res'[c].ok
                      => (slugs' = slugs /\ projects' = projects)
      ]_vars

----------------------------------------------------------------------------
(* sync and update of an entity that is not stored *)

\* C22: a sync or update of an entity whose id is not stored returns an error
\* and stores nothing.  The step of NoteBook.sync, ThoughtBook.sync or
\* ProjectBook.update taken while the id of the entity given is not a key of
\* the repository returns an error and leaves the repository without an
\* entry for that id.
C22_SyncOfAbsentIdFails ==
    [][ \A c \in Calls :
            /\ (IsOp(c, "nb_sync") /\ pc[c] = "nb_sync" /\ Steps(c)
                    /\ cmd[c].note.note_id \notin DOMAIN notes)
               => (~res'[c].ok /\ notes' = notes)
            /\ (IsOp(c, "tb_sync") /\ pc[c] = "tb_sync" /\ Steps(c)
                    /\ cmd[c].thought.thought_id \notin DOMAIN thoughts)
               => (~res'[c].ok /\ thoughts' = thoughts)
            /\ (IsOp(c, "pb_update") /\ pc[c] = "pb_update" /\ Steps(c)
                    /\ cmd[c].project.project_id \notin DOMAIN projects)
               => (~res'[c].ok /\ projects' = projects /\ slugs' = slugs)
      ]_vars

----------------------------------------------------------------------------
(* get of an id or slug that is not stored *)

\* C23: a get for an id or slug that is not stored returns None, never an
\* error, and leaves the repository unchanged.  The step of NoteBook.get,
\* ThoughtBook.get or ProjectBook.get taken while the id asked for is not a
\* key of the repository, and the step of ProjectBook.get_by_slug taken while
\* the slug asked for is not a key of the slugs map, returns Ok(None) and
\* changes no repository.
C23_GetOfAbsentReturnsNone ==
    [][ \A c \in Calls :
            ( Steps(c)
              /\ \/ /\ IsOp(c, "nb_get") /\ pc[c] = "nb_get"
                    /\ cmd[c].note_id \notin DOMAIN notes
                 \/ /\ IsOp(c, "tb_get") /\ pc[c] = "tb_get"
                    /\ cmd[c].thought_id \notin DOMAIN thoughts
                 \/ /\ IsOp(c, "pb_get") /\ pc[c] = "get"
                    /\ cmd[c].project_id \notin DOMAIN projects
                 \/ /\ IsOp(c, "pb_get_by_slug") /\ pc[c] = "get_by_slug"
                    /\ cmd[c].slug \notin DOMAIN slugs )
            => (res'[c] = Ok(None) /\ repos' = repos)
      ]_vars

----------------------------------------------------------------------------
(* The fields ProjectBook.update may rewrite *)

\* C24: ProjectBook.update changes only project_name, slug and locked.  The
\* step of an update of a stored project leaves the entry stored under that
\* id with the same project_id, and with the universe_id and created_at it
\* had before, which are, update after update, the values it was created
\* with.
C24_UpdateKeepsIdentityFields ==
    [][ \A c \in Calls :
            (IsOp(c, "pb_update") /\ pc[c] = "pb_update" /\ Steps(c)
                /\ cmd[c].project.project_id \in DOMAIN projects)
            => LET i == cmd[c].project.project_id
               IN  /\ i \in DOMAIN projects'
                   /\ projects'[i].project_id = i
                   /\ projects'[i].universe_id = projects[i].universe_id
                   /\ projects'[i].created_at = projects[i].created_at
      ]_vars

----------------------------------------------------------------------------
(* Order of delivery *)

----------------------------------------------------------------------------
(* The project a note is created in *)

----------------------------------------------------------------------------
(* generate_slug *)

\* C27: generate_slug is idempotent.  For every name over the bounded
\* alphabet (letters of both cases, digits, spaces, punctuation, hyphens,
\* a non-ASCII letter), generate_slug applied to the slug it returned returns
\* that same slug.
C27_GenerateSlugIdempotent ==
    \A c \in Calls :
        (IsOp(c, "generate_slug") /\ Done(c) /\ cmd[c].of = "slug")
        => /\ cmd[c].name = res[c - 1].id
           /\ res[c].ok
           /\ res[c].id = res[c - 1].id

\* The slug of "B!é" is "b-e", and the slug of "b-e" was computed.
C27_Witness ==
    /\ cmd[1].op = "generate_slug" /\ cmd[1].name = <<"B", "!", "é">>
    /\ Done(1) /\ res[1].id = <<"b", "-", "e">>
    /\ cmd[2].op = "generate_slug" /\ cmd[2].of = "slug"
    /\ Done(2) /\ res[2].id = <<"b", "-", "e">>

\* The maximal runs of ASCII letters and digits of a string, in order, with
\* one hyphen between two consecutive runs: a scan from character i on, out
\* being what is written so far and gap telling that characters other than
\* letters and digits were passed since the last one written.
RECURSIVE HyphenateRuns(_, _, _, _)
HyphenateRuns(s, i, out, gap) ==
    IF i > Len(s) THEN out
    ELSE IF IsAsciiAlphanumeric(s[i])
    THEN HyphenateRuns(s, i + 1,
            (IF gap /\ out # <<>> THEN Append(out, "-") ELSE out)
                \o <<s[i]>>,
            FALSE)
    ELSE HyphenateRuns(s, i + 1, out, TRUE)

----------------------------------------------------------------------------
(* Validation of the project name *)

\* C29: creating a project with an empty or whitespace-only name fails with a
\* validation error in every state of the repository.  No step of a
\* ProjectBook.create or ThoughtService.create_project given such a name
\* changes the projects map or the slugs map or publishes an event, and the
\* call returns the validation error of Project::create.
C29_EmptyNameIsValidationError ==
    [][ \A c \in Calls :
            ( /\ cmd[c].op \in {"pb_create", "create_project"}
              /\ ~NameIsValid(cmd[c].project_name)
              /\ Steps(c) )
            => /\ projects' = projects
               /\ slugs' = slugs
               /\ events' = events
               /\ pc'[c] = "done" => res'[c] = Err("ValidationError", None)
      ]_vars

----------------------------------------------------------------------------
(* POST /project/create *)

\* C30: the POST /project/create handler answers 201 with Location
\* /project/{slug} exactly when the project was created, 409 whenever the
\* creation was rejected because a project with the same slug already exists
\* (also when two requests for the same slug run concurrently), and 500 for
\* any other failure.  Once the service call of a request has returned, the
\* response is 201 with the location of the stored project if the project of
\* the request is stored, 409 if it is not and the rejection was for a slug
\* already taken (at the service's lookup or at the repository's check), and
\* 500 otherwise.
C30_CreateProjectStatus ==
    \A c \in Calls :
        (IsOp(c, "create_project") /\ Done(c))
        => LET response == create_project_response(c)
           IN  IF c \in DOMAIN projects
               THEN /\ response.status = "201 Created"
                    /\ response.location = ProjectLocation(projects[c].slug)
               ELSE IF res[c].err \in {"ProjectAlreadyExists", "DuplicateSlug"}
               THEN response.status = "409 Conflict"
               ELSE response.status = "500 Internal Server Error"

----------------------------------------------------------------------------
(* A rejected update *)

\* C33: a ProjectBook.update that returns DuplicateSlug leaves the repository
\* exactly as it was before the call: the projects map and the slugs map are
\* unchanged, and the previous slug of the project given still resolves to
\* it.
C33_RejectedUpdateChangesNothing ==
    [][ \A c \in Calls :
            (IsOp(c, "pb_update") /\ pc[c] = "pb_update" /\ Steps(c)
                /\ res'[c] = Err("DuplicateSlug", None))
            => LET i == cmd[c].project.project_id
               IN  /\ projects' = projects
                   /\ slugs' = slugs
                   /\ \A s \in DOMAIN slugs : slugs[s] = i
                        => (s \in DOMAIN slugs' /\ slugs'[s] = i)
      ]_vars

----------------------------------------------------------------------------
(* Agreement of the two maps of the project repository *)

\* C34: in every state of the project repository in which no operation is
\* inside its critical section (every state here: a critical section is one
\* step), the slugs map and the projects map agree:
\* every slug entry (s -> id) has a stored project id whose slug is s, and
\* every stored project p has slugs[p.slug] = p.project_id, after any
\* interleaving of create, update (successful or rejected) and delete.
C34_MapsAgree ==
    /\ \A s \in DOMAIN slugs :
        /\ slugs[s] \in DOMAIN projects
        /\ projects[slugs[s]].slug = s
    /\ \A i \in DOMAIN projects :
        /\ projects[i].slug \in DOMAIN slugs
        /\ slugs[projects[i].slug] = i

----------------------------------------------------------------------------
(* get_by_slug beside update and delete *)

\* C35: ProjectBook.get_by_slug(s) returns either no project or a project
\* whose slug field equals s, also when update or delete calls on that
\* project run concurrently with the lookup.  The step at which a
\* get_by_slug returns hands back None or the id of a project that is stored
\* at that step with the slug asked for.
C35_GetBySlugReturnsThatSlug ==
    [][ \A c \in Calls :
            (IsOp(c, "pb_get_by_slug") /\ Steps(c) /\ pc'[c] = "done")
            => \/ res'[c] = Ok(None)
               \/ /\ res'[c].ok
                  /\ res'[c].id \in DOMAIN projects
                  /\ projects[res'[c].id].slug = cmd[c].slug
      ]_vars

----------------------------------------------------------------------------
(* The slug of a stored project *)

\* C39: every project stored by ProjectBook.create or
\* ThoughtService.create_project has a non-empty slug: a name that passes the
\* non-empty-name validation (for example one made only of punctuation)
\* never yields a stored project whose slug is the empty string.
C39_StoredSlugNotEmpty ==
    \A c \in Calls :
        (cmd[c].op \in {"pb_create", "create_project"} /\ c \in DOMAIN projects)
        => projects[c].slug # <<>>

----------------------------------------------------------------------------
(* POST /project/{slug}/thought with a parent_id *)

\* Call c is a POST /project/{slug}/thought request whose body carries a
\* parent_id that is not a stored thought.
PostsDanglingParent(c) ==
    /\ IsOp(c, "create_thought")
    /\ "request" \in DOMAIN cmd[c]
    /\ cmd[c].request.body.parent_id # None
    /\ cmd[c].request.body.parent_id \notin DOMAIN thoughts

\* C31: end to end, a POST /project/{slug}/thought request whose body carries
\* a parent_id that is not a stored thought fails: the handler does not
\* answer 201, no thought is added to the thought repository and no event is
\* published for the request.
C31_PostThoughtDanglingParent ==
    \A c \in Calls :
        PostsDanglingParent(c)
        => /\ c \notin DOMAIN thoughts
           /\ About("Thought", c) = {}
           /\ Done(c) => create_thought_response(c).status # "201 Created"

----------------------------------------------------------------------------
(* Created before Scratched *)

\* The positions of the channel that hold the event of a change of note id.
NoteEventAt(id, change) ==
    {i \in 1 .. Len(events) :
        /\ events[i].kind = "Note"
        /\ events[i].id = id
        /\ events[i].change = change}

HandedOut(kind) == {h \in container.handles : h.kind = kind}

\* Receiving halves handed out: by event_publisher_receiver, or wrapped in the
\* dispatcher by event_dispatcher.
Receivers == HandedOut("receiver") \cup HandedOut("dispatcher")

\* C32: a Container hands out one shared instance of each repository: in any
\* order of calls to note_book(), project_book() and thought_service(), every
\* NoteBook handle returned is the instance the container's ThoughtService
\* works on, and so is every ProjectBook handle (what is written through one
\* is what the other reads).
C32_OneSharedInstance ==
    /\ \A g, h \in HandedOut("note_book") : g.ref = h.ref
    /\ \A g, h \in HandedOut("project_book") : g.ref = h.ref
    /\ container.thought_service.set =>
        /\ \A h \in HandedOut("note_book") :
               h.ref = container.thought_service.note_book
        /\ \A h \in HandedOut("project_book") :
               h.ref = container.thought_service.project_book

\* C32 witness: the service was built, both repositories were handed out and
\* a fourth call was made on the container.
C32_Witness ==
    /\ container.thought_service.set
    /\ HandedOut("note_book") # {}
    /\ HandedOut("project_book") # {}
    /\ container.calls = MaxContainerCalls

\* C38: in any order of calls to thought_service(), event_publisher_sender(),
\* event_publisher_receiver() and event_dispatcher() on one Container, the
\* receiver handed out is the receiver of the channel the service's sender
\* writes to, only one receiver is handed out, and the service's channel is
\* open as long as that receiver has not been dropped.
C38_OneChannel ==
    /\ Cardinality(Receivers) <= 1
    /\ container.thought_service.set =>
        /\ \A h \in Receivers : h.ref = container.thought_service.sender
        /\ (\E h \in Receivers : h.ref \notin container.closed) =>
               container.thought_service.sender \notin container.closed

\* C36: under fair scheduling every operation of the project repository and
\* every ThoughtService command that was started returns, whatever the other
\* callers do: no call waits forever for the projects lock or the slugs lock
\* (the guards are always taken projects first, and no guard of slugs is held
\* while projects is awaited), and send_message returns at once whether the
\* receiver is alive or not.
C36_EveryCallReturns == \A c \in Calls : (pc[c] # "idle") ~> Returned(c)

\* C36 witness: a call holds the write guard of projects and waits for slugs
\* behind a reader, while another call waits for projects.
C36_Witness ==
    \E c, d \in Calls :
        /\ c # d
        /\ "projects" \in Held(c)
        /\ "slugs" \in Waiting(c)
        /\ "projects" \in Waiting(d)

====
